---- MODULE Spec2Model ----
(***************************************************************************)
(* State machine of the transcription workspace: the App component (media  *)
(* file, transcription status, transcript, error, active tab), the         *)
(* MediaUploader's validation, the remote transcription call and the       *)
(* AssistantPanel's chat loop.                                             *)
(*                                                                         *)
(* Texts (transcripts, chat texts, MIME types) are sequences of            *)
(* characters; a program string literal whose content is never inspected   *)
(* is a one element sequence holding the literal.  Error messages are      *)
(* strings, Null is the null of "string | null".                           *)
(*                                                                         *)
(* A setState call is an assignment to the variable.  An event handler     *)
(* runs to completion: between the two synchronous halves of               *)
(* handleTranscribe (pc = "begun") no other action is enabled.             *)
(***************************************************************************)
EXTENDS Integers, Sequences, FiniteSets, TLC

VARIABLES
    apiKey,         \* process.env.API_KEY || '' : fixed for the whole run
    mediaFile,      \* App: MediaFile | null
    status,         \* App: TranscriptionStatus
    transcription,  \* App: string
    error,          \* App: string | null
    activeTab,      \* App: 'transcript' | 'assistant'
    pc,             \* position inside handleTranscribe's synchronous part
    inflight,       \* number of transcribeMedia calls that have not settled
    uploaderError,  \* MediaUploader: string | null
    messages,       \* AssistantPanel: Message[]
    input,          \* AssistantPanel: string
    isLoading,      \* AssistantPanel: boolean
    chatSession,    \* AssistantPanel: Chat | null
    chatInflight,   \* sendMessage calls of the mounted panel that have not settled
    chatStale,      \* sendMessage calls of unmounted panels that have not settled
    searchQuery,        \* TranscriptionDisplay: string
    currentMatchIndex,  \* TranscriptionDisplay: number
    elapsedTime,    \* App: number
    timers,         \* number of interval timers of App that are active
    gen,            \* history: parity of the number of files loaded so far
    hist,           \* history: values status has taken in the current attempt
    assigns,        \* history: setTranscription calls in the current attempt
    lastResp,       \* history: the remote answer the last settled call received
    transcriptsProduced, \* history: transcripts set since the file was loaded
    sessionsCreated,     \* history: createChatSession calls since the file was loaded
    lastShown,      \* history: the conversation last displayed for the loaded file
    discarded,      \* history: length of the conversation a reset just discarded
    last            \* history: the operation that made the last step

appVars == <<mediaFile, status, transcription, error, activeTab>>
panelVars == <<messages, input, isLoading, chatSession, chatInflight>>
histVars == <<gen, hist, assigns, lastResp, transcriptsProduced, sessionsCreated, lastShown, discarded, last>>
searchVars == <<searchQuery, currentMatchIndex>>
timerVars == <<elapsedTime, timers>>
vars == <<apiKey, appVars, pc, inflight, uploaderError, panelVars, chatStale, searchVars,
          timerVars, histVars>>

----------------------------------------------------------------------------
(* Bounds of the model *)

\* the user sends only while the conversation holds fewer messages than this
MaxMessages == 5
\* the history counters saturate at this value
MaxCount == 3
\* no more than this many transcribeMedia calls are outstanding at once
MaxInflight == 2
\* the user sends only while fewer sendMessage calls than this are outstanding
MaxChatOutstanding == 2
\* transcripts searched have at most this many characters
MaxTextLen == 3
\* search queries have at most this many characters
MaxQueryLen == 2
\* the elapsed time is followed up to this many seconds
MaxElapsed == 2
\* the assistant messages formatted have at most this many lines
MaxLines == 2

----------------------------------------------------------------------------
(* Values *)

Null == "NULL"

IDLE == "IDLE"
PROCESSING_FILE == "PROCESSING_FILE"
TRANSCRIBING == "TRANSCRIBING"
COMPLETED == "COMPLETED"
ERROR == "ERROR"
TranscriptionStatus == {IDLE, PROCESSING_FILE, TRANSCRIBING, COMPLETED, ERROR}

Min(a, b) == IF a < b THEN a ELSE b

\* JavaScript's  a || b  on strings: the empty string is falsy
OrElse(a, b) == IF a = "" THEN b ELSE a

StartsWith(s, p) == Len(s) >= Len(p) /\ SubSeq(s, 1, Len(p)) = p

IsPrefix(s, t) == Len(s) <= Len(t) /\ SubSeq(t, 1, Len(s)) = s

IsSpace(c) == c \in {" ", "\n", "\t"}

RECURSIVE TrimStart(_)
TrimStart(s) == IF s # <<>> /\ IsSpace(Head(s)) THEN TrimStart(Tail(s)) ELSE s

RECURSIVE TrimEnd(_)
TrimEnd(s) ==
    IF s # <<>> /\ IsSpace(s[Len(s)]) THEN TrimEnd(SubSeq(s, 1, Len(s) - 1)) ELSE s

\* String.prototype.trim
Trim(s) == TrimEnd(TrimStart(s))

----------------------------------------------------------------------------
(* Files the user can pick or drop *)

SizeLimit == 50 * 1024 * 1024

AudioPrefix == <<"a", "u", "d", "i", "o", "/">>
VideoPrefix == <<"v", "i", "d", "e", "o", "/">>

Files ==
    { [name |-> "talk.mp3",  type |-> AudioPrefix \o <<"m", "p", "3">>, size |-> 1],
      [name |-> "clip.mp4",  type |-> VideoPrefix \o <<"m", "p", "4">>, size |-> SizeLimit],
      [name |-> "long.mp4",  type |-> VideoPrefix \o <<"m", "p", "4">>, size |-> SizeLimit + 1],
      [name |-> "notes.txt", type |-> <<"t", "e", "x", "t", "/", "p">>, size |-> 1],
      [name |-> "book.bin",  type |-> <<"a", "u", "d", "i", "o", "b">>, size |-> 1] }

NoBlob == [name |-> "", type |-> <<>>, size |-> 0]
NoFile == [file |-> NoBlob, previewUrl |-> "", type |-> "none"]

\* the MediaFile handed to onFileSelect
MakeMediaFile(file, isAudio) ==
    [file |-> file, previewUrl |-> "blob:",
     type |-> IF isAudio THEN "audio" ELSE "video"]

----------------------------------------------------------------------------
(* The remote transcription call *)

ResponseTexts == { <<>>, <<"a", "b">>, <<"a", "\n", "b">> }
RejectMessages == { "", "Request failed" }

NoResp == [kind |-> "none", text |-> <<>>, message |-> ""]

\* what the provider can answer: a response carrying a text, or a rejection
Responses ==
    { [kind |-> "response", text |-> t, message |-> ""] : t \in ResponseTexts }
    \cup { [kind |-> "rejected", text |-> <<>>, message |-> m] : m \in RejectMessages }

Return(t) == [ok |-> TRUE, text |-> t, message |-> ""]
Throw(m) == [ok |-> FALSE, text |-> <<>>, message |-> m]

\* transcribeMedia without the check of an empty response text
transcribeMediaNoEmptyCheck(key, resp) ==
    IF key = ""
    THEN Throw("API Key is missing. Please check your environment configuration.")
    ELSE IF resp.kind = "rejected"
         THEN Throw(OrElse(resp.message, "An unexpected error occurred during transcription."))
         ELSE Return(resp.text)

\* transcribeMedia: the outcome of the promise for the provider's answer resp
transcribeMedia(key, resp) ==
    IF key = ""
    THEN Throw("API Key is missing. Please check your environment configuration.")
    ELSE IF resp.kind = "rejected"
         THEN Throw(OrElse(resp.message, "An unexpected error occurred during transcription."))
         ELSE IF resp.text = <<>>
              THEN Throw(OrElse("No transcription text returned from the model.",
                                "An unexpected error occurred during transcription."))
              ELSE Return(resp.text)

\* the answers a call can receive: without an API key no request is sent
Answers == IF apiKey = "" THEN {NoResp} ELSE Responses

----------------------------------------------------------------------------
(* App: the component's state as one record, and its handlers as functions *)
(* from the state before to the state after                                *)

App ==
    [mediaFile |-> mediaFile, status |-> status, transcription |-> transcription,
     error |-> error, activeTab |-> activeTab]

handleFileSelect(a, file) ==
    [a EXCEPT !.mediaFile = file, !.error = Null, !.transcription = <<>>,
              !.status = IDLE, !.activeTab = "transcript"]

\* handleReset without setTranscription('')
handleResetKeepsTranscript(a) ==
    [a EXCEPT !.mediaFile = NoFile, !.status = IDLE, !.error = Null,
              !.activeTab = "transcript"]

\* handleReset without setStatus(IDLE)
handleResetKeepsStatus(a) ==
    [a EXCEPT !.mediaFile = NoFile, !.transcription = <<>>, !.error = Null,
              !.activeTab = "transcript"]

\* handleReset without setError(null)
handleResetKeepsError(a) ==
    [a EXCEPT !.mediaFile = NoFile, !.transcription = <<>>, !.status = IDLE,
              !.activeTab = "transcript"]

handleReset(a) ==
    [a EXCEPT !.mediaFile = NoFile, !.transcription = <<>>, !.status = IDLE,
              !.error = Null, !.activeTab = "transcript"]

\* handleTranscribe up to the try block without  if (!mediaFile) return
transcribeBeginNoGuard(a) ==
    [a EXCEPT !.status = PROCESSING_FILE, !.error = Null]

\* handleTranscribe up to the try block without setError(null)
transcribeBeginKeepsError(a) ==
    IF a.mediaFile = NoFile THEN a
    ELSE [a EXCEPT !.status = PROCESSING_FILE]

\* handleTranscribe up to the try block: setStatus(PROCESSING_FILE), setError(null)
transcribeBegin(a) ==
    IF a.mediaFile = NoFile THEN a
    ELSE [a EXCEPT !.status = PROCESSING_FILE, !.error = Null]

\* handleTranscribe from the try block to the await without setStatus(TRANSCRIBING)
transcribeCallKeepsStatus(a) == a

\* handleTranscribe from the try block to the await
transcribeCall(a) == [a EXCEPT !.status = TRANSCRIBING]

\* handleTranscribe after the await without setTranscription(result)
transcribeSettledSkipsText(a, outcome) ==
    IF outcome.ok
    THEN [a EXCEPT !.status = COMPLETED]
    ELSE [a EXCEPT !.error = OrElse(outcome.message, "An unexpected error occurred."),
                   !.status = ERROR]

\* handleTranscribe after the await without setStatus(COMPLETED)
transcribeSettledKeepsStatus(a, outcome) ==
    IF outcome.ok
    THEN [a EXCEPT !.transcription = outcome.text]
    ELSE [a EXCEPT !.error = OrElse(outcome.message, "An unexpected error occurred."),
                   !.status = ERROR]

\* handleTranscribe after the await, for the outcome of transcribeMedia
transcribeSettled(a, outcome) ==
    IF outcome.ok
    THEN [a EXCEPT !.transcription = outcome.text, !.status = COMPLETED]
    ELSE [a EXCEPT !.error = OrElse(outcome.message, "An unexpected error occurred."),
                   !.status = ERROR]

(* The elapsed-time effect on [status] *)

Running(s) == s \in {TRANSCRIBING, PROCESSING_FILE}

Timer == [elapsedTime |-> elapsedTime, timers |-> timers]

\* the effect without its cleanup
timerEffectNoCleanup(t, old, new) ==
    IF new = old THEN t
    ELSE IF Running(new) THEN [t EXCEPT !.timers = @ + 1]
         ELSE [t EXCEPT !.elapsedTime = 0]

\* status changes from old to new: the cleanup of the last run clears the
\* interval it had set, then the effect sets an interval or sets elapsedTime 0
timerEffect(t, old, new) ==
    IF new = old THEN t
    ELSE LET cleaned == [t EXCEPT !.timers = IF Running(old) THEN @ - 1 ELSE @]
         IN IF Running(new) THEN [cleaned EXCEPT !.timers = @ + 1]
            ELSE [cleaned EXCEPT !.elapsedTime = 0]

(* What the rendered page offers *)

\* the workspace is rendered only with a media file, the uploader only without
UploaderShown(a) == a.mediaFile = NoFile
WorkspaceShown(a) == a.mediaFile # NoFile

\* Change File without its disabled attribute
ChangeFileAlwaysEnabled(a) == WorkspaceShown(a)

\* Change File: disabled={status === TRANSCRIBING}
ChangeFileEnabled(a) == WorkspaceShown(a) /\ a.status # TRANSCRIBING

\* New: part of TranscriptionDisplay, rendered on the transcript tab with a transcript
NewEnabled(a) == WorkspaceShown(a) /\ a.activeTab = "transcript" /\ a.transcription # <<>>

\* Start Transcription rendered whatever the status
StartAlwaysEnabled(a) == WorkspaceShown(a)

\* Start Transcription rendered whenever no attempt is running
StartEnabledUnlessBusy(a) ==
    WorkspaceShown(a) /\ a.status \notin {PROCESSING_FILE, TRANSCRIBING}

\* Start Transcription: rendered when status is IDLE or ERROR
StartEnabled(a) == WorkspaceShown(a) /\ a.status \in {IDLE, ERROR}

\* the Assistant tab button without disabled={!transcription}
AssistantTabAlwaysEnabled(a) == WorkspaceShown(a)

\* the Assistant tab button: disabled={!transcription}
AssistantTabEnabled(a) == WorkspaceShown(a) /\ a.transcription # <<>>

\* AssistantPanel is mounted on the assistant tab of the workspace
MountedIn(a) == WorkspaceShown(a) /\ a.activeTab = "assistant"
Mounted == MountedIn(App)

----------------------------------------------------------------------------
(* AssistantPanel *)

Greeting == <<"I've analyzed the transcript. I can help you summarize the content, find specific quotes, or answer questions about what was discussed.">>
InitError == <<"Error initializing AI assistant. Please check your API key.">>
NoReply == <<"I couldn't generate a response.">>
SendError == <<"Sorry, I encountered an error. Please try again.">>

QuickPrompts ==
    { <<"Please provide a concise summary of this transcription.">>,
      <<"Extract the most significant direct quotes from the speakers.">>,
      <<"What are the main topics discussed in this recording?">> }

\* what the user types into the input
Inputs == { <<>>, <<" ">>, <<"h", "i">> }

\* what sendMessage can answer
ChatResponses ==
    { [kind |-> "response", text |-> t] : t \in { <<>>, <<"o", "k">> } }
    \cup { [kind |-> "rejected", text |-> <<>>] }

NoSession == [created |-> FALSE, context |-> <<>>]

\* createChatSession: throws without an API key, else a chat grounded on the transcript
createChatSession(key, tr) ==
    IF key = "" THEN [ok |-> FALSE, session |-> NoSession]
    ELSE [ok |-> TRUE, session |-> [created |-> TRUE, context |-> tr]]

\* a message; g is history: the parity of the file it was written for
Msg(r, t, g) == [role |-> r, text |-> t, gen |-> g]

Panel ==
    [messages |-> messages, input |-> input, isLoading |-> isLoading,
     chatSession |-> chatSession, chatInflight |-> chatInflight]

\* useState initial values of a newly mounted panel
PanelInit ==
    [messages |-> <<>>, input |-> <<>>, isLoading |-> FALSE,
     chatSession |-> NoSession, chatInflight |-> 0]

\* the effect on [transcription]
chatInitEffect(p, tr) ==
    IF tr = <<>> THEN p
    ELSE LET made == createChatSession(apiKey, tr)
         IN IF made.ok
            THEN [p EXCEPT !.chatSession = made.session,
                           !.messages = <<Msg("model", Greeting, gen)>>]
            ELSE [p EXCEPT !.messages = <<Msg("model", InitError, gen)>>]

\* does rendering App state a2 after the current one run the effect ?
EffectRuns(a2) ==
    MountedIn(a2) /\ (~Mounted \/ a2.transcription # transcription)

\* the panel after App re-renders with a2: unmounting discards the panel's state
\* (a reply that arrives for an unmounted panel changes nothing)
PanelAfter(a2) ==
    IF ~MountedIn(a2) THEN PanelInit
    ELSE IF ~Mounted THEN chatInitEffect(PanelInit, a2.transcription)
    ELSE IF a2.transcription # transcription THEN chatInitEffect(Panel, a2.transcription)
    ELSE Panel

\* handleSend's guard without  !text.trim()
SendAcceptedAnyText(p, text) ==
    ~(p.chatSession = NoSession \/ p.isLoading)

\* handleSend's guard:  if (!text.trim() || !chatSession || isLoading) return
SendAccepted(p, text) ==
    ~(Trim(text) = <<>> \/ p.chatSession = NoSession \/ p.isLoading)

\* handleSend up to the await without setIsLoading(true)
handleSendNoLoading(p, text) ==
    IF ~SendAccepted(p, text) THEN p
    ELSE [p EXCEPT !.messages = Append(@, Msg("user", text, gen)),
                   !.input = <<>>,
                   !.chatInflight = @ + 1]

\* handleSend up to the await
handleSend(p, text) ==
    IF ~SendAccepted(p, text) THEN p
    ELSE [p EXCEPT !.messages = Append(@, Msg("user", text, gen)),
                   !.input = <<>>, !.isLoading = TRUE,
                   !.chatInflight = @ + 1]

\* handleSend after the await, for the answer of sendMessage
sendSettled(p, resp) ==
    LET reply == IF resp.kind = "rejected" THEN SendError
                 ELSE IF resp.text = <<>> THEN NoReply ELSE resp.text
    IN [p EXCEPT !.messages = Append(@, Msg("model", reply, gen)),
                 !.isLoading = FALSE, !.chatInflight = @ - 1]

----------------------------------------------------------------------------
(* MediaUploader *)

\* validateAndProcessFile without the size limit
validateNoSizeCheck(file) ==
    LET isAudio == StartsWith(file.type, AudioPrefix)
        isVideo == StartsWith(file.type, VideoPrefix)
    IN IF ~isAudio /\ ~isVideo
       THEN [accepted |-> FALSE, media |-> NoFile,
             error |-> "Please upload a valid audio or video file."]
       ELSE [accepted |-> TRUE, media |-> MakeMediaFile(file, isAudio),
             error |-> Null]

\* validateAndProcessFile with  file.size >= limit
validateSizeInclusive(file) ==
    LET isAudio == StartsWith(file.type, AudioPrefix)
        isVideo == StartsWith(file.type, VideoPrefix)
    IN IF ~isAudio /\ ~isVideo
       THEN [accepted |-> FALSE, media |-> NoFile,
             error |-> "Please upload a valid audio or video file."]
       ELSE IF file.size >= SizeLimit
            THEN [accepted |-> FALSE, media |-> NoFile,
                  error |-> "File is too large for this demo (limit 50MB). Please compress or trim the file."]
            ELSE [accepted |-> TRUE, media |-> MakeMediaFile(file, isAudio),
                  error |-> Null]

\* validateAndProcessFile: the uploader's error, and the MediaFile for onFileSelect
validateAndProcessFile(file) ==
    LET isAudio == StartsWith(file.type, AudioPrefix)
        isVideo == StartsWith(file.type, VideoPrefix)
    IN IF ~isAudio /\ ~isVideo
       THEN [accepted |-> FALSE, media |-> NoFile,
             error |-> "Please upload a valid audio or video file."]
       ELSE IF file.size > SizeLimit
            THEN [accepted |-> FALSE, media |-> NoFile,
                  error |-> "File is too large for this demo (limit 50MB). Please compress or trim the file."]
            ELSE [accepted |-> TRUE, media |-> MakeMediaFile(file, isAudio),
                  error |-> Null]

----------------------------------------------------------------------------
(* TranscriptionDisplay *)

\* the characters of the transcripts and of the queries that are searched:
\* a letter (in both cases in the transcript), a blank, a character special in
\* a RegExp, and the line break
TextChars == {"a", "A", " ", ".", "\n"}
QueryChars == {"a", " ", "."}

\* the transcripts searched: every non-empty text up to MaxTextLen
SearchTexts == UNION { [1..n -> TextChars] : n \in 1..MaxTextLen }
\* what the user can have in the search box (a text input holds no line break)
Queries == UNION { [1..n -> QueryChars] : n \in 0..MaxQueryLen }

\* the display is rendered for:  activeTab === 'transcript' && transcription
DisplayMountedIn(a) ==
    WorkspaceShown(a) /\ a.activeTab = "transcript" /\ a.transcription # <<>>
DisplayMounted == DisplayMountedIn(App)

Display == [searchQuery |-> searchQuery, currentMatchIndex |-> currentMatchIndex]

\* useState initial values of a newly mounted display
DisplayInit == [searchQuery |-> <<>>, currentMatchIndex |-> 0]

\* the display after App re-renders with a2: unmounting discards its state
DisplayAfter(a2) ==
    IF DisplayMounted /\ DisplayMountedIn(a2) THEN Display ELSE DisplayInit

\* String.prototype.toLowerCase on the characters of the model
toLowerCase(s) == [i \in 1..Len(s) |-> IF s[i] = "A" THEN "a" ELSE s[i]]

\* the characters escaped by  replace(/[.*+?^${}()|[\]\\]/g, '\\$&')
RegExpSpecials == {".", "*", "+", "?", "^", "$", "{", "}", "(", ")", "|", "[", "]", "\\"}

RECURSIVE escapeRegExp(_)
escapeRegExp(q) ==
    IF q = <<>> THEN <<>>
    ELSE (IF Head(q) \in RegExpSpecials THEN <<"\\", Head(q)>> ELSE <<Head(q)>>)
         \o escapeRegExp(Tail(q))

\* new RegExp(source): the atoms of the pattern inside the capturing group.
\* An escaped character stands for itself, an unescaped dot for any character
\* of a line, every other character of the model for itself.
RECURSIVE RegExp(_)
RegExp(source) ==
    IF source = <<>> THEN <<>>
    ELSE IF Head(source) = "\\" /\ Len(source) >= 2
         THEN <<[any |-> FALSE, ch |-> source[2]]>> \o RegExp(SubSeq(source, 3, Len(source)))
         ELSE <<[any |-> Head(source) = ".", ch |-> Head(source)]>> \o RegExp(Tail(source))

\* the 'i' flag compares the canonical (upper case) forms of the characters
Canonicalize(c) == IF c = "a" THEN "A" ELSE c

\* does the pattern match the line at position q ?
MatchAt(line, q, atoms) ==
    /\ q + Len(atoms) - 1 <= Len(line)
    /\ \A k \in 1..Len(atoms) :
          atoms[k].any \/ Canonicalize(atoms[k].ch) = Canonicalize(line[q + k - 1])

\* String.prototype.split with a RegExp of one capturing group, from the end p
\* of the last match and the position q tried next: the pieces between the
\* matches and the captured matches, in turn
RECURSIVE splitFrom(_, _, _, _)
splitFrom(line, atoms, p, q) ==
    IF q > Len(line) THEN <<SubSeq(line, p, Len(line))>>
    ELSE IF atoms # <<>> /\ MatchAt(line, q, atoms)
         THEN <<SubSeq(line, p, q - 1), SubSeq(line, q, q + Len(atoms) - 1)>>
              \o splitFrom(line, atoms, q + Len(atoms), q + Len(atoms))
         ELSE splitFrom(line, atoms, p, q + 1)

split(line, atoms) == splitFrom(line, atoms, 1, 1)

\* text.split('\n')
RECURSIVE splitLines(_)
splitLines(text) ==
    IF \A i \in 1..Len(text) : text[i] # "\n" THEN <<text>>
    ELSE LET i == CHOOSE j \in 1..Len(text) :
                     text[j] = "\n" /\ \A k \in 1..(j - 1) : text[k] # "\n"
         IN <<SubSeq(text, 1, i - 1)>> \o splitLines(SubSeq(text, i + 1, Len(text)))

Part(t, m, i) == [text |-> t, isMatch |-> m, index |-> i]

\* the map over the parts of one paragraph, matchCount being  count  before it
RECURSIVE markParts(_, _, _)
markParts(parts, query, count) ==
    IF parts = <<>> THEN <<>>
    ELSE IF toLowerCase(Head(parts)) = toLowerCase(query)
         THEN <<Part(Head(parts), TRUE, count)>> \o markParts(Tail(parts), query, count + 1)
         ELSE <<Part(Head(parts), FALSE, -1)>> \o markParts(Tail(parts), query, count)

RECURSIVE matchesIn(_)
matchesIn(parts) ==
    IF parts = <<>> THEN 0
    ELSE (IF Head(parts).isMatch THEN 1 ELSE 0) + matchesIn(Tail(parts))

\* the map over the paragraphs, matchCount being  count  before the first
RECURSIVE mapParagraphs(_, _, _)
mapParagraphs(paragraphs, query, count) ==
    IF paragraphs = <<>> THEN <<>>
    ELSE LET paragraph == Head(paragraphs)
             parts == IF Trim(paragraph) = <<>>
                      THEN <<Part(paragraph, FALSE, -1)>>
                      ELSE markParts(split(paragraph, RegExp(escapeRegExp(query))),
                                     query, count)
         IN <<[text |-> paragraph, parts |-> parts]>>
            \o mapParagraphs(Tail(paragraphs), query, count + matchesIn(parts))

\* the useMemo on [text, searchQuery]
processedParagraphs(text, query) ==
    IF query = <<>>
    THEN LET ps == splitLines(text)
         IN [k \in 1..Len(ps) |-> [text |-> ps[k], parts |-> <<Part(ps[k], FALSE, -1)>>]]
    ELSE mapParagraphs(splitLines(text), query, 0)

RECURSIVE matchCount(_)
matchCount(paragraphs) ==
    IF paragraphs = <<>> THEN 0
    ELSE matchesIn(Head(paragraphs).parts) + matchCount(Tail(paragraphs))

totalMatches(text, query) ==
    IF query = <<>> THEN 0 ELSE matchCount(mapParagraphs(splitLines(text), query, 0))

\* the result of a remainder by zero
NaN == -1

\* the % of JavaScript: the sign of the result is the sign of the dividend
JsRem(a, n) ==
    IF n = 0 THEN NaN
    ELSE IF a >= 0 THEN a % n ELSE 0 - ((0 - a) % n)

\* onChange of the search box, and the effect on [searchQuery], without the effect
setSearchQueryKeepsIndex(d, q) == [d EXCEPT !.searchQuery = q]

\* onChange of the search box, and the effect on [searchQuery]
setSearchQuery(d, q) ==
    [searchQuery |-> q,
     currentMatchIndex |-> IF q # d.searchQuery THEN 0 ELSE d.currentMatchIndex]

handleNextMatch(d, total) ==
    [d EXCEPT !.currentMatchIndex = JsRem(@ + 1, total)]

\* handlePrevMatch without  + totalMatches
handlePrevMatchNoWrap(d, total) ==
    [d EXCEPT !.currentMatchIndex = JsRem(@ - 1, total)]

handlePrevMatch(d, total) ==
    [d EXCEPT !.currentMatchIndex = JsRem(@ - 1 + total, total)]

clearSearch(d) == setSearchQuery(d, <<>>)

\* the prev, next and clear buttons are rendered for:  searchQuery && ...
SearchButtonsShown(d) == d.searchQuery # <<>>
\* prev and next:  disabled={totalMatches === 0}
MatchButtonsEnabled(d, total) == SearchButtonsShown(d) /\ total # 0

----------------------------------------------------------------------------
(* FormattedMessage *)

\* String.prototype.toUpperCase on the characters of the messages
toUpperCase(s) == [i \in 1..Len(s) |-> IF s[i] = "b" THEN "B" ELSE s[i]]

\* replace(/cc/g, ''): every pair of the character c is removed, left to right
RECURSIVE removePairs(_, _)
removePairs(s, c) ==
    LET pairs == { j \in 1..(Len(s) - 1) : s[j] = c /\ s[j + 1] = c }
    IN IF pairs = {} THEN s
       ELSE LET j == CHOOSE p \in pairs : \A q \in pairs : p <= q
            IN SubSeq(s, 1, j - 1) \o removePairs(SubSeq(s, j + 2, Len(s)), c)

\* the end of the longest run of characters of the set cs that starts at i
RECURSIVE skipRun(_, _, _)
skipRun(s, i, cs) == IF i <= Len(s) /\ s[i] \in cs THEN skipRun(s, i + 1, cs) ELSE i

\* \s of a RegExp, on the characters of the model
WhiteSpace == {" ", "\n", "\t"}

\* replace(/^#+\s*/gm, ''), from position i: ^ is the start of the text or the
\* place after a line break, and \s* takes line breaks too
RECURSIVE stripHeaderMarkers(_, _)
stripHeaderMarkers(s, i) ==
    LET starts == { j \in i..Len(s) : (j = 1 \/ s[j - 1] = "\n") /\ s[j] = "#" }
    IN IF starts = {} THEN SubSeq(s, i, Len(s))
       ELSE LET j == CHOOSE p \in starts : \A q \in starts : p <= q
            IN SubSeq(s, i, j - 1)
               \o stripHeaderMarkers(s, skipRun(s, skipRun(s, j, {"#"}), WhiteSpace))

cleanText(text) == stripHeaderMarkers(removePairs(removePairs(text, "*"), "_"), 1)

\* the string literal of the second startsWith of the list item test, as it
\* stands in the source: three characters and a blank
BulletLiteral == <<"a-circumflex", "euro-sign", "cent-sign", " ">>

\* the header test with  trimmed.length < 61
isHeaderUpTo60(trimmed) ==
    /\ Len(trimmed) < 61
    /\ Len(trimmed) > 3
    /\ trimmed = toUpperCase(trimmed)
    /\ \E i \in 1..Len(trimmed) : trimmed[i] \in {"A", "B"}
    /\ ~StartsWith(trimmed, <<"-">>)

isHeader(trimmed) ==
    /\ Len(trimmed) < 60
    /\ Len(trimmed) > 3
    /\ trimmed = toUpperCase(trimmed)
    /\ \E i \in 1..Len(trimmed) : trimmed[i] \in {"A", "B"}
    /\ ~StartsWith(trimmed, <<"-">>)

isListItem(trimmed) ==
    StartsWith(trimmed, <<"-", " ">>) \/ StartsWith(trimmed, BulletLiteral)

\* /^\d+\.\s/.test(trimmed)
isNumbered(trimmed) ==
    LET j == skipRun(trimmed, 1, {"1"})
    IN j > 1 /\ j + 1 <= Len(trimmed) /\ trimmed[j] = "." /\ trimmed[j + 1] \in WhiteSpace

Element(k, t) == [kind |-> k, text |-> t]

\* the element rendered for one line
renderLine(line) ==
    LET trimmed == Trim(line)
    IN IF trimmed = <<>> THEN Element("spacer", <<>>)
       ELSE IF isHeader(trimmed) THEN Element("header", trimmed)
       ELSE IF isListItem(trimmed) THEN Element("bullet", SubSeq(trimmed, 3, Len(trimmed)))
       ELSE IF isNumbered(trimmed) THEN Element("numbered", trimmed)
       ELSE Element("paragraph", trimmed)

FormattedMessage(text) ==
    LET lines == splitLines(cleanText(text))
    IN [k \in 1..Len(lines) |-> renderLine(lines[k])]

\* the assistant messages formatted: up to MaxLines lines, each a marker (or
\* none) followed by a body (or none)
Run(c, n) == [i \in 1..n |-> c]
LineMarkers ==
    { <<>>, <<"-">>, <<"-", " ">>, <<"1", ".", " ">>, <<"#", " ">>, BulletLiteral }
LineBodies ==
    { <<>>, <<"A", "A", "A">>, <<"A", "A", "A", "A">>, <<"A", "b", "A", "A">>,
      <<"1", "1", "1", "1">>, <<"A", "_", "_", "A", "*", "*">> }
FormatLines ==
    { m \o b : m \in LineMarkers, b \in LineBodies } \cup { Run("A", n) : n \in 59..60 }

RECURSIVE TextsOf(_)
TextsOf(n) ==
    IF n = 1 THEN FormatLines
    ELSE TextsOf(n - 1) \cup { t \o <<"\n">> \o l : t \in TextsOf(n - 1), l \in FormatLines }

FormatTexts == TextsOf(MaxLines) \ {<<>>}

----------------------------------------------------------------------------
(* Steps *)

Init ==
    /\ apiKey \in {"", "key"}
    /\ mediaFile = NoFile
    /\ status = IDLE
    /\ transcription = <<>>
    /\ error = Null
    /\ activeTab = "transcript"
    /\ pc = "idle"
    /\ inflight = 0
    /\ uploaderError = Null
    /\ messages = <<>>
    /\ input = <<>>
    /\ isLoading = FALSE
    /\ chatSession = NoSession
    /\ chatInflight = 0
    /\ chatStale = 0
    /\ searchQuery = <<>>
    /\ currentMatchIndex = 0
    /\ elapsedTime = 0
    /\ timers = 0
    /\ gen = 0
    /\ hist = <<>>
    /\ assigns = 0
    /\ lastResp = NoResp
    /\ transcriptsProduced = 0
    /\ sessionsCreated = 0
    /\ lastShown = <<>>
    /\ discarded = 0
    /\ last = "init"

SetPanel(p) ==
    /\ messages' = p.messages
    /\ input' = p.input
    /\ isLoading' = p.isLoading
    /\ chatSession' = p.chatSession
    /\ chatInflight' = p.chatInflight

SetDisplay(d) ==
    /\ searchQuery' = d.searchQuery
    /\ currentMatchIndex' = d.currentMatchIndex

SetTimer(t) ==
    /\ elapsedTime' = t.elapsedTime
    /\ timers' = t.timers

\* the calls of a panel that is unmounted stay outstanding: they cannot be aborted
StaleAfter(a2) ==
    IF Mounted /\ ~MountedIn(a2) THEN chatStale + chatInflight ELSE chatStale

\* App takes the state a2 and re-renders
SetApp(a2) ==
    /\ mediaFile' = a2.mediaFile
    /\ status' = a2.status
    /\ transcription' = a2.transcription
    /\ error' = a2.error
    /\ activeTab' = a2.activeTab
    /\ SetPanel(PanelAfter(a2))
    /\ chatStale' = StaleAfter(a2)
    /\ SetDisplay(DisplayAfter(a2))
    /\ SetTimer(timerEffect(Timer, status, a2.status))

SessionsAfter(a2) ==
    IF EffectRuns(a2) /\ a2.transcription # <<>>
    THEN Min(sessionsCreated + 1, MaxCount) ELSE sessionsCreated

ShownAfter(a2) == IF MountedIn(a2) THEN PanelAfter(a2).messages ELSE lastShown

\* the histories of a file start again
FreshFile ==
    /\ assigns' = 0
    /\ lastResp' = NoResp
    /\ transcriptsProduced' = 0
    /\ sessionsCreated' = 0
    /\ lastShown' = <<>>

\* the user picks or drops a file on the uploader
SelectFile(f) ==
    /\ pc = "idle"
    /\ UploaderShown(App)
    /\ LET v == validateAndProcessFile(f)
       IN IF v.accepted
          THEN /\ SetApp(handleFileSelect(App, v.media))
               /\ uploaderError' = Null
               /\ gen' = 1 - gen
               /\ hist' = <<>>
               /\ discarded' = 0
               /\ FreshFile
               /\ last' = "SelectFile"
          ELSE /\ uploaderError' = v.error
               /\ last' = "RejectFile"
               /\ UNCHANGED <<appVars, panelVars, chatStale, searchVars, timerVars, gen, hist, assigns, lastResp,
                              transcriptsProduced, sessionsCreated, lastShown,
                              discarded>>
    /\ UNCHANGED <<apiKey, pc, inflight>>

\* Start Transcription: handleTranscribe up to the try block
ClickStart ==
    /\ pc = "idle"
    /\ StartEnabled(App)
    /\ inflight < MaxInflight
    /\ SetApp(transcribeBegin(App))
    /\ pc' = "begun"
    /\ hist' = <<status, transcribeBegin(App).status>>
    /\ assigns' = 0
    /\ sessionsCreated' = SessionsAfter(transcribeBegin(App))
    /\ lastShown' = ShownAfter(transcribeBegin(App))
    /\ last' = "ClickStart"
    /\ UNCHANGED <<apiKey, inflight, uploaderError, gen, lastResp, transcriptsProduced,
                   discarded>>

\* handleTranscribe from the try block to the await: the call is made
TranscribeCall ==
    /\ pc = "begun"
    /\ SetApp(transcribeCall(App))
    /\ pc' = "idle"
    /\ inflight' = inflight + 1
    /\ hist' = Append(hist, transcribeCall(App).status)
    /\ sessionsCreated' = SessionsAfter(transcribeCall(App))
    /\ lastShown' = ShownAfter(transcribeCall(App))
    /\ last' = "TranscribeCall"
    /\ UNCHANGED <<apiKey, uploaderError, gen, assigns, lastResp, transcriptsProduced,
                   discarded>>

\* a call settles and handleTranscribe resumes after the await
TranscribeSettle(resp) ==
    /\ pc = "idle"
    /\ inflight > 0
    /\ LET outcome == transcribeMedia(apiKey, resp)
           a2 == transcribeSettled(App, outcome)
       IN /\ SetApp(a2)
          /\ hist' = Append(hist, a2.status)
          /\ assigns' = IF outcome.ok THEN Min(assigns + 1, MaxCount) ELSE assigns
          /\ transcriptsProduced' =
                IF outcome.ok THEN Min(transcriptsProduced + 1, MaxCount)
                ELSE transcriptsProduced
          /\ sessionsCreated' = SessionsAfter(a2)
          /\ lastShown' = ShownAfter(a2)
          /\ last' = IF outcome.ok THEN "TranscribeSuccess" ELSE "TranscribeFailure"
    /\ inflight' = inflight - 1
    /\ lastResp' = resp
    /\ UNCHANGED <<apiKey, pc, uploaderError, gen, discarded>>

\* a reset of the view: handleReset, and the uploader is mounted again
ResetView(name) ==
    /\ SetApp(handleReset(App))
    /\ uploaderError' = Null
    /\ hist' = Append(hist, handleReset(App).status)
    /\ discarded' = Len(lastShown)
    /\ FreshFile
    /\ last' = name
    /\ UNCHANGED <<apiKey, pc, inflight, gen>>

\* Change File (left panel): handleReset
ClickChangeFile ==
    /\ pc = "idle"
    /\ ChangeFileEnabled(App)
    /\ ResetView("ClickChangeFile")

\* New (transcript toolbar): onReset = handleReset
ClickNew ==
    /\ pc = "idle"
    /\ NewEnabled(App)
    /\ ResetView("ClickNew")

\* the tab buttons: setActiveTab
ClickTab(tab) ==
    /\ pc = "idle"
    /\ WorkspaceShown(App)
    /\ tab = "assistant" => AssistantTabEnabled(App)
    /\ SetApp([App EXCEPT !.activeTab = tab])
    /\ sessionsCreated' = SessionsAfter([App EXCEPT !.activeTab = tab])
    /\ lastShown' = ShownAfter([App EXCEPT !.activeTab = tab])
    /\ last' = IF tab = "assistant" THEN "ClickAssistantTab" ELSE "ClickTranscriptTab"
    /\ UNCHANGED <<apiKey, pc, inflight, uploaderError, gen, hist, assigns, lastResp,
                   transcriptsProduced, discarded>>

\* a step of the mounted panel: App's state stays
PanelStep(p, name) ==
    /\ SetPanel(p)
    /\ lastShown' = p.messages
    /\ last' = name
    /\ UNCHANGED <<apiKey, appVars, pc, inflight, uploaderError, chatStale, searchVars,
                   timerVars, gen, hist,
                   assigns, lastResp, transcriptsProduced, sessionsCreated, discarded>>

\* the user edits the input: disabled={isLoading}
TypeInput(t) ==
    /\ pc = "idle"
    /\ Mounted
    /\ ~isLoading
    /\ PanelStep([Panel EXCEPT !.input = t], "TypeInput")

\* a send by the user, who stops when the conversation is MaxMessages long
\* or MaxChatOutstanding calls are outstanding
UserSend(text, name) ==
    /\ pc = "idle"
    /\ Mounted
    /\ Len(messages) < MaxMessages
    /\ chatInflight + chatStale < MaxChatOutstanding
    /\ PanelStep(handleSend(Panel, text),
                 IF SendAccepted(Panel, text) THEN name ELSE "SendIgnored")

\* Enter in the input (the input takes keys unless disabled={isLoading})
PressEnter == ~isLoading /\ UserSend(input, "PressEnter")

\* the Send button: disabled={!input.trim() || isLoading}
ClickSend == Trim(input) # <<>> /\ ~isLoading /\ UserSend(input, "ClickSend")

\* a quick action: rendered while messages.length < 3, disabled={isLoading}
ClickQuickAction(prompt) ==
    Len(messages) < 3 /\ ~isLoading /\ UserSend(prompt, "ClickQuickAction")

\* sendMessage settles and handleSend resumes after the await
ChatSettle(resp) ==
    /\ pc = "idle"
    /\ Mounted
    /\ chatInflight > 0
    /\ PanelStep(sendSettled(Panel, resp),
                 IF resp.kind = "rejected" THEN "ChatFailure" ELSE "ChatReply")

\* sendMessage settles for a panel that was unmounted: handleSend resumes after
\* the await, and its setMessages and setIsLoading change nothing
StaleChatSettle(resp) ==
    /\ pc = "idle"
    /\ chatStale > 0
    /\ chatStale' = chatStale - 1
    /\ last' = IF resp.kind = "rejected" THEN "StaleChatFailure" ELSE "StaleChatReply"
    /\ UNCHANGED <<apiKey, appVars, pc, inflight, uploaderError, panelVars, searchVars,
                   timerVars, gen, hist,
                   assigns, lastResp, transcriptsProduced, sessionsCreated, lastShown,
                   discarded>>

\* an interval fires:  setElapsedTime(prev => prev + 1)
Tick ==
    /\ pc = "idle"
    /\ timers > 0
    /\ elapsedTime < MaxElapsed
    /\ elapsedTime' = elapsedTime + 1
    /\ last' = "Tick"
    /\ UNCHANGED <<apiKey, appVars, pc, inflight, uploaderError, panelVars, chatStale,
                   searchVars, timers, gen, hist, assigns, lastResp, transcriptsProduced,
                   sessionsCreated, lastShown, discarded>>

Next ==
    \/ \E f \in Files : SelectFile(f)
    \/ ClickStart
    \/ TranscribeCall
    \/ \E resp \in Answers : TranscribeSettle(resp)
    \/ ClickChangeFile
    \/ ClickNew
    \/ \E tab \in {"transcript", "assistant"} : ClickTab(tab)
    \/ \E t \in Inputs : TypeInput(t)
    \/ PressEnter
    \/ ClickSend
    \/ \E prompt \in QuickPrompts : ClickQuickAction(prompt)
    \/ \E resp \in ChatResponses : ChatSettle(resp)
    \/ \E resp \in ChatResponses : StaleChatSettle(resp)
    \/ Tick

Spec == Init /\ [][Next]_vars

----------------------------------------------------------------------------
(* The search of the transcript.  The display's state depends on App only
   through its text, which stays the same while the display is mounted, and
   nothing depends on the display's state: its handlers are run from the
   state in which a transcription has completed, for every text of
   SearchTexts. *)

TotalMatches == totalMatches(transcription, searchQuery)

\* a step of the mounted display: App and the panel stay
DisplayStep(d, name) ==
    /\ pc = "idle"
    /\ DisplayMounted
    /\ SetDisplay(d)
    /\ last' = name
    /\ UNCHANGED <<apiKey, appVars, pc, inflight, uploaderError, panelVars, chatStale,
                   timerVars, gen, hist, assigns, lastResp, transcriptsProduced,
                   sessionsCreated, lastShown, discarded>>

\* the user edits the search box
ChangeQuery(q) ==
    /\ q # searchQuery
    /\ DisplayStep(setSearchQuery(Display, q), "ChangeQuery")

ClickNextMatch ==
    /\ MatchButtonsEnabled(Display, TotalMatches)
    /\ DisplayStep(handleNextMatch(Display, TotalMatches), "NextMatch")

ClickPrevMatch ==
    /\ MatchButtonsEnabled(Display, TotalMatches)
    /\ DisplayStep(handlePrevMatch(Display, TotalMatches), "PrevMatch")

ClickClearSearch ==
    /\ SearchButtonsShown(Display)
    /\ DisplayStep(clearSearch(Display), "ClearSearch")

\* talk.mp3 was loaded and its transcription has completed with a text of SearchTexts
InitSearch ==
    /\ apiKey = "key"
    /\ mediaFile = MakeMediaFile(CHOOSE f \in Files : f.name = "talk.mp3", TRUE)
    /\ status = COMPLETED
    /\ transcription \in SearchTexts
    /\ error = Null
    /\ activeTab = "transcript"
    /\ pc = "idle"
    /\ inflight = 0
    /\ uploaderError = Null
    /\ messages = <<>>
    /\ input = <<>>
    /\ isLoading = FALSE
    /\ chatSession = NoSession
    /\ chatInflight = 0
    /\ chatStale = 0
    /\ searchQuery = <<>>
    /\ currentMatchIndex = 0
    /\ elapsedTime = 0
    /\ timers = 0
    /\ gen = 1
    /\ hist = <<IDLE, PROCESSING_FILE, TRANSCRIBING, COMPLETED>>
    /\ assigns = 1
    /\ lastResp = [kind |-> "response", text |-> transcription, message |-> ""]
    /\ transcriptsProduced = 1
    /\ sessionsCreated = 0
    /\ lastShown = <<>>
    /\ discarded = 0
    /\ last = "TranscribeSuccess"

NextSearch ==
    \/ \E q \in Queries : ChangeQuery(q)
    \/ ClickNextMatch
    \/ ClickPrevMatch
    \/ ClickClearSearch
    \/ \E tab \in {"transcript", "assistant"} : tab # activeTab /\ ClickTab(tab)

SpecSearch == InitSearch /\ [][NextSearch]_vars

----------------------------------------------------------------------------
(* The formatting of assistant messages.  FormattedMessage is a function of
   the text of the message alone: it is applied to the replies of FormatTexts,
   from the state in which a question about the transcript has been sent. *)

InitFormat ==
    /\ apiKey = "key"
    /\ mediaFile = MakeMediaFile(CHOOSE f \in Files : f.name = "talk.mp3", TRUE)
    /\ status = COMPLETED
    /\ transcription = <<"a", "b">>
    /\ error = Null
    /\ activeTab = "assistant"
    /\ pc = "idle"
    /\ inflight = 0
    /\ uploaderError = Null
    /\ messages = << Msg("model", Greeting, 1),
                     Msg("user", CHOOSE p \in QuickPrompts : TRUE, 1) >>
    /\ input = <<>>
    /\ isLoading = TRUE
    /\ chatSession = createChatSession(apiKey, transcription).session
    /\ chatInflight = 1
    /\ chatStale = 0
    /\ searchQuery = <<>>
    /\ currentMatchIndex = 0
    /\ elapsedTime = 0
    /\ timers = 0
    /\ gen = 1
    /\ hist = <<IDLE, PROCESSING_FILE, TRANSCRIBING, COMPLETED>>
    /\ assigns = 1
    /\ lastResp = [kind |-> "response", text |-> transcription, message |-> ""]
    /\ transcriptsProduced = 1
    /\ sessionsCreated = 1
    /\ lastShown = messages
    /\ discarded = 0
    /\ last = "ClickQuickAction"

\* a reply arrives only for a request that is pending
NextFormat ==
    /\ chatInflight > 0
    /\ \E t \in FormatTexts : ChatSettle([kind |-> "response", text |-> t])

SpecFormat == InitFormat /\ [][NextFormat]_vars

\* the reply that was appended last, and what is rendered for it
LastReply == messages[Len(messages)].text
Rendered == FormattedMessage(LastReply)

----------------------------------------------------------------------------
(* Properties *)

ResetOps == {"ClickChangeFile", "ClickNew"}
IdleValues(a) ==
    /\ a.status = IDLE
    /\ a.transcription = <<>>
    /\ a.mediaFile = NoFile
    /\ a.error = Null
    /\ a.activeTab = "transcript"

\* C1: an attempt started from IDLE whose remote call succeeds takes status
\* through IDLE, PROCESSING_FILE, TRANSCRIBING, COMPLETED and nothing else, and
\* assigns transcription exactly once, to the text the remote call returned.
C1_SuccessPath ==
    (last = "TranscribeSuccess" /\ hist # <<>> /\ Head(hist) = IDLE) =>
        /\ hist = <<IDLE, PROCESSING_FILE, TRANSCRIBING, COMPLETED>>
        /\ status = COMPLETED
        /\ assigns = 1
        /\ lastResp.kind = "response"
        /\ transcription = lastResp.text

C1_Witness ==
    /\ last = "TranscribeSuccess"
    /\ hist # <<>> /\ Head(hist) = IDLE
    /\ transcription = <<"a", "\n", "b">>

\* C2: when the remote call fails (no API key, a rejected request, a response
\* with an empty text) the attempt ends with status ERROR, an error message
\* that is not null, and an empty transcription.
C2_FailureEndsInError ==
    LET settled == last \in {"TranscribeSuccess", "TranscribeFailure"}
        failed == apiKey = "" \/ lastResp.kind = "rejected" \/ lastResp.text = <<>>
    IN /\ (settled /\ failed) =>
            /\ last = "TranscribeFailure"
            /\ status = ERROR
            /\ error # Null /\ error # ""
            /\ transcription = <<>>
            /\ hist[Len(hist)] = ERROR
       /\ last = "TranscribeFailure" => failed

C2_Witness ==
    /\ last = "TranscribeFailure"
    /\ lastResp.kind = "response" /\ lastResp.text = <<>>
    /\ error = "No transcription text returned from the model."

\* C3: from every reachable state handleReset gives status IDLE, an empty
\* transcription, no media file, no error and the transcript tab, and the
\* conversation is gone: no panel is mounted after it, and every message of a
\* conversation shown later was written for the file loaded then.
C3_ResetClears ==
    /\ IdleValues(handleReset(App))
    /\ PanelAfter(handleReset(App)) = PanelInit
    /\ last \in ResetOps => IdleValues(App) /\ messages = <<>> /\ lastShown = <<>>
    /\ \A i \in DOMAIN messages : messages[i].gen = gen
    /\ \A i \in DOMAIN lastShown : lastShown[i].gen = gen

C3_Witness ==
    /\ last = "ClickChangeFile"
    /\ discarded >= 3
    /\ messages = <<>>

FileOps == ResetOps \cup {"SelectFile"}

LinearSteps ==
    { <<IDLE, PROCESSING_FILE>>, <<PROCESSING_FILE, TRANSCRIBING>>,
      <<TRANSCRIBING, COMPLETED>>, <<TRANSCRIBING, ERROR>> }

\* C6 as claimed: apart from a reset or a file selection (to IDLE), status only
\* changes IDLE to PROCESSING_FILE, PROCESSING_FILE to TRANSCRIBING,
\* TRANSCRIBING to COMPLETED and TRANSCRIBING to ERROR.
C6_LinearOnly ==
    [][status' # status =>
          \/ <<status, status'>> \in LinearSteps
          \/ status' = IDLE /\ last' \in FileOps]_vars

\* C6 amended: the status changes are those four and ERROR to PROCESSING_FILE
\* (Start Transcription is offered again after a failure), besides a reset or
\* file selection to IDLE; nothing leaves COMPLETED but a reset.
C6_LinearWithRetry ==
    [][status' # status =>
          \/ <<status, status'>> \in LinearSteps \cup { <<ERROR, PROCESSING_FILE>> }
          \/ status' = IDLE /\ last' \in FileOps]_vars

C6_Witness ==
    /\ last = "ClickStart"
    /\ hist = <<ERROR, PROCESSING_FILE>>
    /\ status = PROCESSING_FILE

\* no attempt is running and none can be started
NoAttempt == inflight = 0 /\ pc = "idle" /\ ~StartEnabled(App)

\* C7: once transcription is not empty it keeps its value in every step until
\* a reset or file selection empties it; while it is set no transcription
\* request is outstanding and none can be started; only a successful
\* completion sets it, and only when it was empty.
C7_TranscriptImmutable ==
    [][/\ transcription # <<>> =>
            /\ NoAttempt
            /\ \/ transcription' = transcription
               \/ transcription' = <<>> /\ last' \in FileOps
       /\ transcription' # <<>> => NoAttempt'
       /\ (transcription = <<>> /\ transcription' # <<>>) => last' = "TranscribeSuccess"]_vars

C7_Witness ==
    /\ transcription # <<>>
    /\ last = "ChatReply"
    /\ Len(messages) = 5

\* C8: between loading a media file and the next reset the conversation is
\* append-only: in every step the conversation displayed before is a prefix of
\* the one displayed after, also across a switch of tabs.
C8_AppendOnly ==
    [][(mediaFile # NoFile /\ last' \notin FileOps) => IsPrefix(lastShown, lastShown')]_vars

\* C9: the conversation of the mounted panel is in strict turn order: it starts
\* with the assistant's greeting and no two adjacent messages have the same role.
C9_TurnOrder ==
    /\ Mounted =>
          /\ messages # <<>>
          /\ messages[1] = Msg("model", Greeting, gen)
    /\ ~Mounted => messages = <<>>
    /\ \A i \in DOMAIN messages : messages[i].role \in {"user", "model"}
    /\ \A i \in 1..(Len(messages) - 1) : messages[i].role # messages[i + 1].role

C9_Witness ==
    /\ Len(messages) = 5
    /\ messages[2].text \in QuickPrompts
    /\ messages[3].text = NoReply
    /\ messages[4].text = <<"h", "i">>
    /\ last = "ChatFailure"

\* C10: for each loaded media file at most one transcript is produced and
\* createChatSession is called at most once, however often the tabs are switched.
C10_OneTranscriptOneSession ==
    /\ transcriptsProduced <= 1
    /\ sessionsCreated <= 1

\* C11: at most one chat request is outstanding at any time: while a
\* sendMessage call has not returned, no further send issues a remote call.
C11_OneChatRequest == chatInflight + chatStale <= 1

\* C12: at most one transcription request is outstanding at any time: while
\* status is PROCESSING_FILE or TRANSCRIBING Start Transcription is not
\* offered, so no user action starts a second call of transcribeMedia.
C12_OneTranscriptionRequest ==
    /\ inflight <= 1
    /\ inflight = 1 => status = TRANSCRIBING
    /\ status \in {PROCESSING_FILE, TRANSCRIBING} =>
          /\ ~StartEnabled(App)
          /\ ~ENABLED ClickStart
          /\ inflight = IF status = TRANSCRIBING THEN 1 ELSE 0

C12_Witness ==
    /\ inflight = 1
    /\ status = TRANSCRIBING
    /\ last = "ClickTranscriptTab"

\* a file as the claims describe it
MimeIsAudio(f) == StartsWith(f.type, <<"a", "u", "d", "i", "o", "/">>)
MimeIsVideo(f) == StartsWith(f.type, <<"v", "i", "d", "e", "o", "/">>)
TooLarge(f) == f.size > 50 * 1024 * 1024
InvalidFile(f) == (~MimeIsAudio(f) /\ ~MimeIsVideo(f)) \/ TooLarge(f)

\* C13: selecting a file whose MIME type starts with neither audio/ nor video/,
\* or whose size exceeds 50*1024*1024 bytes, sets the uploader's error and does
\* not invoke onFileSelect: mediaFile, status, transcription and error stay.
C13_InvalidFileRejected ==
    [][\A f \in Files :
          (SelectFile(f) /\ InvalidFile(f)) =>
              /\ uploaderError' # Null
              /\ UNCHANGED <<appVars, gen>>
              /\ last' = "RejectFile"]_vars

C13_Witness ==
    /\ last = "RejectFile"
    /\ uploaderError = "File is too large for this demo (limit 50MB). Please compress or trim the file."
    /\ mediaFile = NoFile
    /\ gen = 1

\* C14: selecting a file whose MIME type starts with audio/ or video/ and whose
\* size is at most 50*1024*1024 bytes invokes onFileSelect once, with type
\* audio exactly for an audio/ MIME type; the uploader's error is cleared and
\* the file is loaded with status IDLE, no transcription and no error.
C14_ValidFileAccepted ==
    [][\A f \in Files :
          (SelectFile(f) /\ ~InvalidFile(f)) =>
              /\ mediaFile'.file = f
              /\ mediaFile'.type = (IF MimeIsAudio(f) THEN "audio" ELSE "video")
              /\ status' = IDLE
              /\ transcription' = <<>>
              /\ error' = Null
              /\ uploaderError' = Null
              /\ gen' = 1 - gen
              /\ last' = "SelectFile"]_vars

C14_Witness ==
    /\ last = "SelectFile"
    /\ mediaFile.type = "video"
    /\ mediaFile.file.size = 50 * 1024 * 1024
    /\ gen = 0

\* C15: when the remote chat call of an accepted send fails, exactly one
\* assistant message with the error text is appended directly after the user's
\* message, the earlier messages stay, and isLoading is false afterwards so
\* that a further send is accepted.  (Stated for calls made about the
\* first transcript while it is still loaded, so no reset is involved.)
C15_FailureAppendsError ==
    [][(/\ last' \in {"ChatFailure", "StaleChatFailure"}
        /\ transcriptsProduced = 1
        /\ transcription # <<>>) =>
          /\ messages # <<>>
          /\ messages[Len(messages)].role = "user"
          /\ messages' = Append(messages, Msg("model", SendError, gen))
          /\ ~isLoading'
          /\ chatSession' # NoSession]_vars

\* C16: after a failed attempt there is no automatic retry.  In status ERROR
\* no request is outstanding and Start Transcription is enabled; the only
\* steps that leave ERROR are Start Transcription, a reset and a file
\* selection; Start Transcription clears the error message and begins a new
\* attempt; and transcribeMedia is only ever called in the step after the
\* user's Start Transcription.
C16_NoAutomaticRetry ==
    [][/\ status = ERROR =>
             /\ inflight = 0
             /\ pc = "idle"
             /\ error # Null
             /\ StartEnabled(App)
             /\ last' # "TranscribeCall"
             /\ inflight' = 0
             /\ status' # ERROR => last' \in FileOps \cup {"ClickStart"}
             /\ last' = "ClickStart" =>
                   /\ status' = PROCESSING_FILE
                   /\ error' = Null
                   /\ pc' = "begun"
       /\ last' = "TranscribeCall" => last = "ClickStart" /\ inflight' = 1]_vars

C16_Witness ==
    /\ last = "TranscribeCall"
    /\ hist = <<ERROR, PROCESSING_FILE, TRANSCRIBING>>
    /\ error = Null
    /\ inflight = 1

\* two characters that differ at most in case
SameLetter(c, d) == c = d \/ {c, d} = {"a", "A"}

\* the query occurs in the line at position i, whatever the case of the letters
OccursAt(line, query, i) ==
    /\ i + Len(query) - 1 <= Len(line)
    /\ \A k \in 1..Len(query) : SameLetter(line[i + k - 1], query[k])

\* where the occurrences found by a scan from position i, left to right, start
RECURSIVE Occurrences(_, _, _)
Occurrences(line, query, i) ==
    IF i > Len(line) THEN {}
    ELSE IF OccursAt(line, query, i)
         THEN {i} \cup Occurrences(line, query, i + Len(query))
         ELSE Occurrences(line, query, i + 1)

RECURSIVE Concat(_)
Concat(parts) == IF parts = <<>> THEN <<>> ELSE Head(parts).text \o Concat(Tail(parts))

\* where the parts marked as matches start in their paragraph
MatchStarts(parts) ==
    { Len(Concat(SubSeq(parts, 1, k - 1))) + 1 : k \in { j \in 1..Len(parts) : parts[j].isMatch } }

\* the numbers of the matches, in document order
RECURSIVE IndicesOf(_)
IndicesOf(parts) ==
    IF parts = <<>> THEN <<>>
    ELSE (IF Head(parts).isMatch THEN <<Head(parts).index>> ELSE <<>>) \o IndicesOf(Tail(parts))

RECURSIVE MatchIndices(_)
MatchIndices(paragraphs) ==
    IF paragraphs = <<>> THEN <<>>
    ELSE IndicesOf(Head(paragraphs).parts) \o MatchIndices(Tail(paragraphs))

RECURSIVE OccurrenceCount(_, _)
OccurrenceCount(lines, query) ==
    IF lines = <<>> THEN 0
    ELSE Cardinality(Occurrences(Head(lines), query, 1)) + OccurrenceCount(Tail(lines), query)

\* the parts of one paragraph are its text, and its matches are the occurrences
MarksOccurrences(paragraph, line, query) ==
    /\ paragraph.text = line
    /\ Concat(paragraph.parts) = line
    /\ MatchStarts(paragraph.parts) = Occurrences(line, query, 1)
    /\ \A k \in 1..Len(paragraph.parts) :
          paragraph.parts[k].isMatch => Len(paragraph.parts[k].text) = Len(query)

\* C17: for every non-empty query and every transcript, the parts marked as
\* matches in each paragraph are exactly the case-insensitive occurrences of the
\* query in it, scanned left to right; totalMatches is their number over all
\* paragraphs; the matches are numbered 0..totalMatches-1 in document order;
\* and the parts of a paragraph concatenate to its text.
C17_MatchesAreOccurrences ==
    (DisplayMounted /\ searchQuery # <<>>) =>
        LET lines == splitLines(transcription)
            shown == processedParagraphs(transcription, searchQuery)
        IN /\ Len(shown) = Len(lines)
           /\ \A k \in 1..Len(lines) : MarksOccurrences(shown[k], lines[k], searchQuery)
           /\ TotalMatches = OccurrenceCount(lines, searchQuery)
           /\ MatchIndices(shown) = [i \in 1..TotalMatches |-> i - 1]

\* handleNextMatch applied n times
RECURSIVE NextTimes(_, _, _)
NextTimes(d, total, n) ==
    IF n = 0 THEN d ELSE NextTimes(handleNextMatch(d, total), total, n - 1)

\* the display with the active match index i
AtIndex(i) == [Display EXCEPT !.currentMatchIndex = i]

\* C18: with n = totalMatches > 0, handleNextMatch takes the active match
\* index i to (i+1) mod n and handlePrevMatch takes it to (i-1+n) mod n: next
\* after the last match gives 0, previous from 0 gives n-1, each undoes the
\* other, and n nexts give the starting index again.
C18_CircularIndex ==
    [][LET n == TotalMatches
           i == currentMatchIndex
       IN /\ last' = "NextMatch" =>
                /\ n > 0
                /\ currentMatchIndex' = (i + 1) % n
                /\ i = n - 1 => currentMatchIndex' = 0
                /\ handlePrevMatch(Display', n) = Display
                /\ NextTimes(Display, n, n) = Display
          /\ last' = "PrevMatch" =>
                /\ n > 0
                /\ currentMatchIndex' = (i - 1 + n) % n
                /\ i = 0 => currentMatchIndex' = n - 1
                /\ handleNextMatch(Display', n) = Display
          /\ last' \in {"NextMatch", "PrevMatch"} =>
                \A j \in 0..(n - 1) :
                   /\ handleNextMatch(AtIndex(j), n).currentMatchIndex = (j + 1) % n
                   /\ handlePrevMatch(AtIndex(j), n).currentMatchIndex = (j - 1 + n) % n
                   /\ handlePrevMatch(handleNextMatch(AtIndex(j), n), n) = AtIndex(j)
                   /\ handleNextMatch(handlePrevMatch(AtIndex(j), n), n) = AtIndex(j)
                   /\ NextTimes(AtIndex(j), n, n) = AtIndex(j)]_vars

C18_Witness ==
    /\ last = "PrevMatch"
    /\ TotalMatches = 3
    /\ currentMatchIndex = 2

C21_CompletedIffTranscript ==
    /\ status = COMPLETED <=> transcription # <<>>
    /\ \A resp \in Responses :
          transcribeMedia(apiKey, resp).ok => transcribeMedia(apiKey, resp).text # <<>>
    /\ handleReset(App).transcription = <<>> /\ handleReset(App).status = IDLE

C21_Witness ==
    /\ status = COMPLETED
    /\ transcription # <<>>
    /\ gen = 0
    /\ last = "TranscribeSuccess"

\* C22: in every state the error message is set exactly when status is ERROR;
\* starting an attempt, selecting a file and a reset clear it, and only a
\* failed attempt sets it.
C22_ErrorIffStatusError ==
    [][/\ error # Null <=> status = ERROR
       /\ error' # Null <=> status' = ERROR
       /\ (error = Null /\ error' # Null) => last' = "TranscribeFailure"
       /\ last' = "TranscribeFailure" => error' # Null
       /\ last' \in FileOps \cup {"ClickStart"} => error' = Null]_vars

C22_Witness ==
    /\ last = "ClickChangeFile"
    /\ Len(hist) >= 2
    /\ hist[Len(hist) - 1] = ERROR
    /\ error = Null
    /\ status = IDLE

\* C23: with no media file loaded, status is IDLE, the transcription is empty
\* and error is null; and handleTranscribe with no media file changes nothing
\* and makes no remote call.
C23_NoFileIsIdle ==
    UploaderShown(App) =>
        /\ IdleValues(App)
        /\ transcribeBegin(App) = App
        /\ ~StartEnabled(App)
        /\ pc = "idle"
        /\ inflight = 0

C23_Witness ==
    /\ mediaFile = NoFile
    /\ last = "ClickNew"
    /\ Len(hist) >= 2
    /\ hist[Len(hist) - 1] = COMPLETED

\* C24: in every state the Assistant tab is active only with a transcription
\* that is not empty, so the panel is mounted and its chat session is created
\* only for such a transcript.
C24_AssistantNeedsTranscript ==
    /\ activeTab = "assistant" => transcription # <<>>
    /\ Mounted => transcription # <<>>
    /\ chatSession # NoSession =>
          /\ Mounted
          /\ chatSession.context = transcription
          /\ chatSession.context # <<>>
    /\ sessionsCreated > 0 => transcriptsProduced > 0

C24_Witness ==
    /\ activeTab = "assistant"
    /\ chatSession # NoSession
    /\ last = "ClickAssistantTab"

\* the panel as the init effect leaves it when createChatSession throws
FailedInit == [PanelInit EXCEPT !.messages = <<Msg("model", InitError, gen)>>]

\* the panel without a chat session
Sessionless == [Panel EXCEPT !.chatSession = NoSession]

\* C25: handleSend changes nothing (no message, input and isLoading as
\* before, no remote call) for a text that is empty or white space and for a
\* panel without a chat session; after a failed creation of the session the
\* conversation is the initialisation-error message and no send is accepted.
C25_SendIgnored ==
    [][/\ last' = "SendIgnored" => UNCHANGED <<panelVars, chatStale>>
       /\ last' \in {"PressEnter", "ClickSend"} =>
             Trim(input) # <<>> /\ chatSession # NoSession
       /\ last' = "ClickQuickAction" => chatSession # NoSession
       /\ last' \in {"SendIgnored", "TypeInput"} =>
             \A text \in Inputs \cup QuickPrompts :
                /\ Trim(text) = <<>> => handleSend(Panel, text) = Panel
                /\ handleSend(Sessionless, text) = Sessionless
                /\ ~createChatSession("", transcription).ok
                /\ handleSend(FailedInit, text) = FailedInit
                /\ FailedInit.messages = <<Msg("model", InitError, gen)>>]_vars

C25_Witness ==
    /\ last = "SendIgnored"
    /\ input = <<" ">>
    /\ ~isLoading
    /\ chatSession # NoSession

ClaimIsHeader(t) ==
    /\ Len(t) \in 4..59
    /\ \A i \in 1..Len(t) : t[i] # "b"
    /\ \E i \in 1..Len(t) : t[i] \in {"A", "B"}
    /\ t[1] # "-"

\* the kind the claim gives a line: spacer, then header, then bullet item, then
\* numbered item, then paragraph
ClaimKind(line) ==
    LET t == Trim(line)
    IN IF t = <<>> THEN "spacer"
       ELSE IF ClaimIsHeader(t) THEN "header"
       ELSE IF isListItem(t) THEN "bullet"
       ELSE IF isNumbered(t) THEN "numbered"
       ELSE "paragraph"

RendersLines(lines) ==
    /\ Len(Rendered) = Len(lines)
    /\ \A k \in 1..Len(lines) : Rendered[k].kind = ClaimKind(lines[k])

\* C27 as claimed: each line of an assistant message is rendered as one of
\* spacer, header, bullet item, numbered item and paragraph, in that order of
\* precedence, a line being a header exactly when its trimmed length is 4 to
\* 59, it is its own upper-casing, it has a letter A-Z and it does not start
\* with '-'.
C27_LinesOfMessage ==
    last = "ChatReply" => RendersLines(splitLines(LastReply))

\* C27 amended: the same holds of each line of the text that is left when the
\* markers **, __ and the # at the start of a line (with the white space after
\* them) have been removed from the message.
C27_LinesOfCleanText ==
    last = "ChatReply" => RendersLines(splitLines(cleanText(LastReply)))

C27_Witness ==
    /\ last = "ChatReply"
    /\ cleanText(LastReply) # LastReply
    /\ Len(Rendered) = 2
    /\ Rendered[1].kind = "header"
    /\ Rendered[2].kind = "numbered"

====
